---- MODULE Spec2Model ----
(***************************************************************************)
(* photo_work: a catalog table, a library table, and three directories     *)
(* (the catalogued source tree, the date-organised library, the trash).    *)
(* The commands catalog, import and prune are modelled step by step; the   *)
(* store functions persist_catalog_entries and persist_library_entries are *)
(* also modelled as operations of their own, driven with arbitrary batches *)
(* as the unit tests of src/database drive them.  The read-only            *)
(* operations (foreach_entry, the check commands, find_duplicates) run     *)
(* over arbitrary tables in a specification of their own.                  *)
(***************************************************************************)
EXTENDS Integers, Sequences, FiniteSets, TLC

\* ------------------------------------------------------------------ bounds
NumDigests == 2   \* distinct file contents (each content has its own digest)
MaxEvents  == 1   \* events of the environment: an external modification of a
                  \* catalogued file, or an I/O or storage failure
MaxBatch   == 2   \* entries in a batch handed directly to a persist_* call

Digests == 1..NumDigests
NoFile  == 0

\* Source files, in the order a directory walk yields them.  A path is the
\* sequence of its components: <<grandparent, parent directory, file name>>.
WalkOrder == << <<"p", "a", "x">>, <<"q", "a", "x">>, <<"q", "a", "y">> >>
Paths == {WalkOrder[i] : i \in DOMAIN WalkOrder}

\* Arguments of `catalog <PATH>` and `import <PATH_PREFIX>`.
Prefixes == {<<>>, <<"p">>, <<"q">>}

FileName(p)   == p[Len(p)]
ParentName(p) == p[Len(p) - 1]

\* Library destinations: <<file name, k>> is <date dir>/<stem>.<ext> for k = 0
\* and <date dir>/<stem>_k.<ext> for k >= 1.  All modelled pictures carry the
\* same capture date, so the date directory is not part of the model.
\* unused_filename never gives up: the suffixes reach past the files of one
\* name that the imports of one run can leave in the date directory (one per
\* candidate of that name for the commits and for every failed commit).
SameName  == CHOOSE n \in {Cardinality({q \in Paths : FileName(q) = FileName(p)}) : p \in Paths} :
                 \A p \in Paths : Cardinality({q \in Paths : FileName(q) = FileName(p)}) <= n
MaxSuffix == SameName * (MaxEvents + 1) - 1
LibPaths  == {<<FileName(p), k>> : p \in Paths, k \in 0..MaxSuffix}

\* The commands run in the top directory of the source tree, so the library
\* lives beside the sources: as a walk from the top sees it, the library file
\* <<name, k>> is <date dir>/<name> or <date dir>/<name>_k.
LibFileName(l) == IF l[2] = 0 THEN l[1] ELSE l[1] \o "_" \o ToString(l[2])
WorkdirPath(l) == <<"d", LibFileName(l)>>
LibPathOf(p)   == CHOOSE l \in LibPaths : WorkdirPath(l) = p

RECURSIVE Dedup(_)
Dedup(s) ==
    IF s = <<>> THEN <<>>
    ELSE <<Head(s)>> \o Dedup(SelectSeq(Tail(s), LAMBDA x : x # Head(s)))

FileNames == Dedup([i \in DOMAIN WalkOrder |-> FileName(WalkOrder[i])])

\* The library files in walk order, after the source files.
LibWalkOrder ==
    [i \in 1..(Len(FileNames) * (MaxSuffix + 1)) |->
        WorkdirPath(<<FileNames[((i - 1) \div (MaxSuffix + 1)) + 1],
                      (i - 1) % (MaxSuffix + 1)>>)]
AllWalkOrder == WalkOrder \o LibWalkOrder
AllPaths     == {AllWalkOrder[i] : i \in DOMAIN AllWalkOrder}

\* The one file system the source tree and the library directory are part of.
Disk(fs, lf) ==
    [p \in AllPaths |-> IF p \in Paths THEN fs[p] ELSE lf[LibPathOf(p)]]

TrashPaths == {<<ParentName(p), FileName(p)>> : p \in AllPaths}

CatalogEntry(h, p) == [hash |-> h, path |-> p]
LibraryEntry(h, p) == [hash |-> h, path |-> p]

ERR_MISMATCH == "Database insert count does not match files copied. Files left in place."
ERR_INSERT   == "Failed to insert"
ERR_CONFLICT == "UNIQUE constraint failed: catalog.path"
ERR_INVALID  == "Invalid File"
ERR_IO       == "io error"

Ok(op, n)  == [op |-> op, ok |-> TRUE,  count |-> n, err |-> ""]
Err(op, e) == [op |-> op, ok |-> FALSE, count |-> 0, err |-> e]
NoResult   == [op |-> "none", ok |-> TRUE, count |-> 0, err |-> ""]

\* An error message: its text and the path it names (<<>> when the text
\* names no path).
Message(text, path) == [text |-> text, path |-> path]

VARIABLES
    files,      \* source tree: [Paths -> Digests \cup {NoFile}], the content at each path
    libfiles,   \* library directory: [LibPaths -> Digests \cup {NoFile}]
    trash,      \* trash directory: [TrashPaths -> Digests \cup {NoFile}]
    catalog,    \* table catalog(hash, path): sequence of rows in rowid order
    library,    \* table library(hash, path): sequence of rows in rowid order
    pc,         \* "idle", or the command in progress
    batch,      \* entries selected by the command in progress (or handed to a persist_* call)
    pos,        \* number of entries of batch already processed
    accepted,   \* import: the library entries whose copy succeeded so far
    moved,      \* prune: [entry, bytes] of the entries relocated so far
    result,     \* outcome of the last finished operation
    events,     \* number of events of the environment so far
    visited,    \* foreach_entry: the rows the visitor was applied to, in order
    errors,     \* the error messages of the last operation, in order
    call,       \* a function called on its own: its arguments
    ret         \* a function called on its own: what it returned

vars == <<files, libfiles, trash, catalog, library, pc, batch, pos, accepted,
          moved, result, events, visited, errors, call, ret>>

Range(s) == {s[i] : i \in DOMAIN s}

RECURSIVE SeqOfSet(_)
SeqOfSet(S) ==
    IF S = {} THEN <<>>
    ELSE LET m == CHOOSE x \in S : \A y \in S : x <= y
         IN <<m>> \o SeqOfSet(S \ {m})

IsPrefix(prefix, p) ==
    /\ Len(prefix) <= Len(p)
    /\ \A i \in 1..Len(prefix) : prefix[i] = p[i]

\* SQLite's LIKE as select_from_catalog uses it (no ESCAPE clause, no
\* case_sensitive_like pragma): `%` stands for any run of characters, `_`
\* for any one character, and ASCII letters match in either case.
ascii_upper(c) == CASE c = "a" -> "A" [] c = "b" -> "B" [] OTHER -> c

RECURSIVE sqlite_like(_, _)
sqlite_like(pattern, text) ==
    IF pattern = <<>> THEN text = <<>>
    ELSE IF Head(pattern) = "%"
         THEN \/ sqlite_like(Tail(pattern), text)
              \/ text # <<>> /\ sqlite_like(pattern, Tail(text))
         ELSE IF text = <<>> THEN FALSE
              ELSE IF Head(pattern) = "_"
                   THEN sqlite_like(Tail(pattern), Tail(text))
                   ELSE /\ ascii_upper(Head(pattern)) = ascii_upper(Head(text))
                        /\ sqlite_like(Tail(pattern), Tail(text))

\* `catalog.path like ?1` with ?1 = [path_prefix, "%"].join("").
path_like(path_prefix, path) == sqlite_like(path_prefix \o <<"%">>, path)

\* ------------------------------------------------------------ the schema
\* catalog.path is UNIQUE.
CatalogConflict(rows, e) == \E i \in DOMAIN rows : rows[i].path = e.path

\* library.hash is UNIQUE.
LibraryConflict(rows, e) == \E i \in DOMAIN rows : rows[i].hash = e.hash

\* ------------------------------------------------- database/catalog.rs
\* INSERT OR IGNORE: a row whose path is taken is skipped without an error.
RECURSIVE catalog_insert_all_ignore(_, _)
catalog_insert_all_ignore(rows, entries) ==
    IF entries = <<>> THEN [ok |-> TRUE, count |-> 0, rows |-> rows]
    ELSE IF CatalogConflict(rows, Head(entries))
         THEN catalog_insert_all_ignore(rows, Tail(entries))
         ELSE LET r == catalog_insert_all_ignore(Append(rows, Head(entries)), Tail(entries))
              IN  [r EXCEPT !.count = @ + 1]

\* A table without its constraint: every INSERT succeeds.
catalog_insert_all_unconstrained(rows, entries) ==
    [ok |-> TRUE, count |-> Len(entries), rows |-> rows \o entries]

\* The transaction's view of the table after the inserts that succeeded;
\* ok is FALSE when a statement failed and `?` returned early.
RECURSIVE catalog_insert_all(_, _)
catalog_insert_all(rows, entries) ==
    IF entries = <<>> THEN [ok |-> TRUE, count |-> 0, rows |-> rows]
    ELSE IF CatalogConflict(rows, Head(entries))
         THEN [ok |-> FALSE, count |-> 0, rows |-> rows]
         ELSE LET r == catalog_insert_all(Append(rows, Head(entries)), Tail(entries))
              IN  [r EXCEPT !.count = @ + 1]

\* The error `statement.execute([sha256, path])?` hands on when the INSERT
\* of entry e is refused: the message of the database, which names the
\* constraint and none of the values of e.
execute_error(e) == Message(ERR_CONFLICT, <<>>)

\* The first entry of a batch whose INSERT is refused (the batch has one).
RECURSIVE first_refused(_, _)
first_refused(rows, entries) ==
    IF CatalogConflict(rows, Head(entries)) THEN Head(entries)
    ELSE first_refused(Append(rows, Head(entries)), Tail(entries))

\* A commit that does not depend on the outcome of the inserts.
persist_catalog_entries_partial(rows, entries) ==
    LET r == catalog_insert_all(rows, entries)
    IN  [rows |-> r.rows,
         res  |-> IF r.ok THEN Ok("persist_catalog", r.count)
                  ELSE Err("persist_catalog", ERR_CONFLICT)]

\* Ok(count) commits; an error drops the transaction, which rolls it back.
persist_catalog_entries(rows, entries) ==
    LET r == catalog_insert_all(rows, entries)
    IN  IF r.ok
        THEN [rows |-> r.rows, res |-> Ok("persist_catalog", r.count)]
        ELSE [rows |-> rows,   res |-> Err("persist_catalog", ERR_CONFLICT)]

\* ------------------------------------------------- database/library.rs
\* INSERT OR IGNORE: a refused row is skipped and the loop goes on.
RECURSIVE library_insert_all_skip(_, _, _)
library_insert_all_skip(rows, entries, failAt) ==
    IF entries = <<>> THEN [ok |-> TRUE, count |-> 0, rows |-> rows]
    ELSE IF failAt = 1 \/ LibraryConflict(rows, Head(entries))
         THEN library_insert_all_skip(rows, Tail(entries), 0)
         ELSE LET r == library_insert_all_skip(Append(rows, Head(entries)), Tail(entries),
                                               IF failAt = 0 THEN 0 ELSE failAt - 1)
              IN  [r EXCEPT !.count = @ + 1]

\* failAt = k > 0: the k-th statement of the call fails in the storage layer
\* (disk full, locked database); failAt = 0: only the schema can refuse.
RECURSIVE library_insert_all(_, _, _)
library_insert_all(rows, entries, failAt) ==
    IF entries = <<>> THEN [ok |-> TRUE, count |-> 0, rows |-> rows]
    ELSE IF failAt = 1 \/ LibraryConflict(rows, Head(entries))
         THEN [ok |-> FALSE, count |-> 0, rows |-> rows]
         ELSE LET r == library_insert_all(Append(rows, Head(entries)), Tail(entries),
                                          IF failAt = 0 THEN 0 ELSE failAt - 1)
              IN  [r EXCEPT !.count = @ + 1]

\* A commit of whatever the transaction inserted before the failure.
persist_library_entries_partial(rows, entries, failAt) ==
    LET r == library_insert_all(rows, entries, failAt)
    IN  [rows |-> r.rows, res |-> Ok("persist_library", Len(r.rows) - Len(rows))]

\* Commits only on Ok(db_count) with db_count == entries.len(); every other
\* outcome returns the mismatch error and drops (rolls back) the transaction.
persist_library_entries(rows, entries, failAt) ==
    LET r == library_insert_all(rows, entries, failAt)
    IN  IF r.ok /\ r.count = Len(entries)
        THEN [rows |-> r.rows, res |-> Ok("persist_library", r.count)]
        ELSE [rows |-> rows,   res |-> Err("persist_library", ERR_MISMATCH)]

\* The grouped query the prune and check commands call: every digest with
\* more than one catalog path, mapped to its rows in table order.
DuplicateDigests(rows) ==
    {d \in Digests : Cardinality({i \in DOMAIN rows : rows[i].hash = d}) > 1}

find_duplicate_digests(rows) ==
    [d \in DuplicateDigests(rows) |-> SelectSeq(rows, LAMBDA r : r.hash = d)]

\* Every catalog row whose digest also exists in the library.
find_already_imported(rows, lib) ==
    SelectSeq(rows, LAMBDA r : \E j \in DOMAIN lib : lib[j].hash = r.hash)

\* Deletes the given rows; rows already absent are ignored.
remove_catalog_entries(rows, entries) ==
    SelectSeq(rows, LAMBDA r : r \notin Range(entries))

\* The selection without its `library.hash IS NULL` condition.
Importable_any(rows, lib, prefix) ==
    {i \in DOMAIN rows : path_like(prefix, rows[i].path)}

\* The selection without its GROUP BY: every importable row, in table order.
select_from_catalog_ungrouped(rows, lib, prefix) ==
    {SelectSeq(rows, LAMBDA r : /\ path_like(prefix, r.path)
                                /\ ~ \E j \in DOMAIN lib : lib[j].hash = r.hash)}

\* SELECT ... WHERE catalog.path LIKE prefix% AND library.hash IS NULL
\* GROUP BY catalog.hash: one row per digest, in digest order; which row of a
\* group supplies the path is the database's choice, so the query has a set
\* of possible results.
Importable(rows, lib, prefix) ==
    {i \in DOMAIN rows : /\ path_like(prefix, rows[i].path)
                         /\ ~ \E j \in DOMAIN lib : lib[j].hash = rows[i].hash}

select_from_catalog(rows, lib, prefix) ==
    LET idx == Importable(rows, lib, prefix)
        ds  == SeqOfSet({rows[i].hash : i \in idx})
    IN  {s \in [1..Len(ds) -> {rows[i] : i \in idx}] :
            \A k \in 1..Len(ds) : s[k].hash = ds[k]}

\* -------------------------------------------- database/library_entry.rs
\* base name first, then <stem>_1, <stem>_2, ... while the path exists.
RECURSIVE probe(_, _, _)
probe(lf, name, k) ==
    IF k > MaxSuffix THEN [ok |-> FALSE, path |-> <<name, k>>]
    ELSE IF lf[<<name, k>>] = NoFile THEN [ok |-> TRUE, path |-> <<name, k>>]
    ELSE probe(lf, name, k + 1)

unused_filename(lf, name) == probe(lf, name, 0)

\* TryFrom<&CatalogEntry>: read_exif opens the source file, so a missing file
\* is an error; the entry takes the catalog row's digest and an unused path.
LibraryEntry_try_from(fs, lf, e) ==
    IF fs[e.path] = NoFile THEN [ok |-> FALSE, entry |-> LibraryEntry(e.hash, <<>>)]
    ELSE LET u == unused_filename(lf, FileName(e.path))
         IN  [ok |-> u.ok, entry |-> LibraryEntry(e.hash, u.path)]

\* ---------------------------------------------------- command/import.rs
\* create_dir_all, copy, then `hash != library_entry.sha256()`.
copy_catalog_entry(fs, lf, from, le, hash) ==
    LET copied == [lf EXCEPT ![le.path] = fs[from]]
    IN  [lf |-> copied, ok |-> (hash = le.hash)]

\* Every destination refused: nothing is copied.
try_copy_catalog_entry_refuse(fs, lf, from, le, hash) == [lf |-> lf, ok |-> FALSE]

try_copy_catalog_entry(fs, lf, from, le, hash) ==
    IF lf[le.path] # NoFile THEN [lf |-> lf, ok |-> FALSE]
    ELSE copy_catalog_entry(fs, lf, from, le, hash)

\* A commit that replaces the table by the batch.
import_persist_library_entries_replace(rows, entries, failAt) ==
    [rows |-> entries, res |-> Ok("import", Len(entries))]

\* import.rs has its own persist_library_entries: `?` returns the insert
\* error as it is; the mismatch error is for an Ok count that differs.
import_persist_library_entries(rows, entries, failAt) ==
    LET r == library_insert_all(rows, entries, failAt)
    IN  IF ~ r.ok THEN [rows |-> rows, res |-> Err("import", ERR_INSERT)]
        ELSE IF r.count = Len(entries)
             THEN [rows |-> r.rows, res |-> Ok("import", r.count)]
             ELSE [rows |-> rows, res |-> Err("import", ERR_MISMATCH)]

\* ----------------------------------------------------- command/prune.rs
\* Path::file_name is None for the empty path and for a path that ends in
\* `..` or in the root; Path::parent drops the last component.  trash_path
\* gives the path below the trash root, or fails with "Invalid File".
NotNormal == {"..", "/"}

trash_path_unchecked(p) ==
    IF Len(p) < 2 THEN [ok |-> FALSE, path |-> <<>>]
    ELSE [ok |-> TRUE, path |-> <<ParentName(p), FileName(p)>>]

trash_path(p) ==
    IF Len(p) < 2 \/ ParentName(p) \in NotNormal \/ FileName(p) \in NotNormal
    THEN [ok |-> FALSE, path |-> <<>>]
    ELSE [ok |-> TRUE, path |-> <<ParentName(p), FileName(p)>>]

\* trash_path, create_dir_all, copy, remove_file, each ending the call on
\* its error.  fault names the step an injected I/O error hits.
move_to_trash(fs, tr, p, fault) ==
    LET t == trash_path(p) IN
    IF ~ t.ok THEN [ok |-> FALSE, err |-> ERR_INVALID, fs |-> fs, tr |-> tr]
    ELSE IF fs[p] = NoFile \/ fault = "copy"
         THEN [ok |-> FALSE, err |-> ERR_IO, fs |-> fs, tr |-> tr]
         ELSE LET copied == [tr EXCEPT ![t.path] = fs[p]] IN
              IF fault = "remove"
              THEN [ok |-> FALSE, err |-> ERR_IO, fs |-> fs, tr |-> copied]
              ELSE [ok |-> TRUE, err |-> "", fs |-> [fs EXCEPT ![p] = NoFile],
                    tr |-> copied]

\* --------------------------------------------------- command/catalog.rs
\* One CatalogEntry (digest of the content, path) per file under root.
WalkEntries(fs, root) ==
    LET found == SelectSeq(AllWalkOrder, LAMBDA p : fs[p] # NoFile /\ IsPrefix(root, p))
    IN  [i \in 1..Len(found) |-> CatalogEntry(fs[found[i]], found[i])]

\* ================================================================ state
Init ==
    /\ files \in [Paths -> Digests \cup {NoFile}]
    /\ libfiles = [l \in LibPaths |-> NoFile]
    /\ trash = [t \in TrashPaths |-> NoFile]
    /\ catalog = <<>>
    /\ library = <<>>
    /\ pc = "idle"
    /\ batch = <<>>
    /\ pos = 0
    /\ accepted = <<>>
    /\ moved = <<>>
    /\ result = NoResult
    /\ events = 0
    /\ visited = <<>>
    /\ errors = <<>>
    /\ call = <<>>
    /\ ret = <<>>

\* Every file of the library directory is the file of a library row.
LibraryTracked ==
    \A l \in LibPaths : libfiles[l] # NoFile =>
        \E i \in DOMAIN library : library[i] = LibraryEntry(libfiles[l], l)

\* catalog <PATH>: walk, fingerprint, persist in one transaction.  The user
\* catalogues the top directory only while every library file is tracked, so
\* that an import never has a file of the library directory as its source.
Catalog(root) ==
    /\ pc = "idle"
    /\ root = <<>> => LibraryTracked
    /\ LET r == persist_catalog_entries(catalog,
                                         WalkEntries(Disk(files, libfiles), root))
       IN  /\ catalog' = r.rows
           /\ result' = [r.res EXCEPT !.op = "catalog"]
    /\ UNCHANGED <<files, libfiles, trash, library, pc, batch, pos, accepted,
                   moved, events>>
    /\ UNCHANGED <<visited, errors, call, ret>>

\* The content of a catalogued file changes behind the program's back.
Tamper(p, d) ==
    /\ pc = "idle"
    /\ events < MaxEvents
    /\ files[p] # NoFile /\ files[p] # d
    /\ \E i \in DOMAIN catalog : catalog[i].path = p
    /\ files' = [files EXCEPT ![p] = d]
    /\ events' = events + 1
    /\ UNCHANGED <<libfiles, trash, catalog, library, pc, batch, pos, accepted,
                   moved, result>>
    /\ UNCHANGED <<visited, errors, call, ret>>

\* import <PATH_PREFIX>, first statement: the candidates.
ImportBegin(prefix) ==
    /\ pc = "idle"
    /\ \E sel \in select_from_catalog(catalog, library, prefix) : batch' = sel
    /\ pc' = "import"
    /\ pos' = 0
    /\ accepted' = <<>>
    /\ result' = NoResult
    /\ UNCHANGED <<files, libfiles, trash, catalog, library, moved, events>>
    /\ UNCHANGED <<visited, errors, call, ret>>

\* An import that moves: the source file is removed once it is copied.
ImportEntryMoving ==
    /\ pc = "import"
    /\ pos < Len(batch)
    /\ LET e  == batch[pos + 1]
           fs == Disk(files, libfiles)
           le == LibraryEntry_try_from(fs, libfiles, e)
       IN  IF ~ le.ok
           THEN /\ libfiles' = libfiles
                /\ accepted' = accepted
                /\ files' = files
           ELSE LET c == try_copy_catalog_entry(fs, libfiles, e.path, le.entry, e.hash)
                IN  /\ libfiles' = c.lf
                    /\ accepted' = IF c.ok THEN Append(accepted, le.entry) ELSE accepted
                    /\ files' = IF c.ok /\ e.path \in Paths
                                THEN [files EXCEPT ![e.path] = NoFile] ELSE files
    /\ pos' = pos + 1
    /\ UNCHANGED <<trash, catalog, library, pc, batch, moved, result, events>>
    /\ UNCHANGED <<visited, errors, call, ret>>

\* One candidate through the iterator chain of import: try_from, then
\* try_copy_catalog_entry; an Err is printed and the entry filtered out.
ImportEntry ==
    /\ pc = "import"
    /\ pos < Len(batch)
    /\ LET e  == batch[pos + 1]
           fs == Disk(files, libfiles)
           le == LibraryEntry_try_from(fs, libfiles, e)
       IN  IF ~ le.ok
           THEN /\ libfiles' = libfiles
                /\ accepted' = accepted
           ELSE LET c == try_copy_catalog_entry(fs, libfiles, e.path, le.entry, e.hash)
                IN  /\ libfiles' = c.lf
                    /\ accepted' = IF c.ok THEN Append(accepted, le.entry) ELSE accepted
    /\ pos' = pos + 1
    /\ UNCHANGED <<files, trash, catalog, library, pc, batch, moved, result, events>>
    /\ UNCHANGED <<visited, errors, call, ret>>

\* The transaction of import run while candidates are still to be copied.
ImportPersistEarly ==
    /\ pc = "import"
    /\ events' = events
    /\ LET r == import_persist_library_entries(library, accepted, 0)
       IN  /\ library' = r.rows
           /\ result' = r.res
    /\ pc' = "idle"
    /\ batch' = <<>>
    /\ pos' = 0
    /\ accepted' = <<>>
    /\ UNCHANGED <<files, libfiles, trash, catalog, moved>>
    /\ UNCHANGED <<visited, errors, call, ret>>

\* The last statement of import: persist_library_entries(connection, entries).
ImportPersist ==
    /\ pc = "import"
    /\ pos = Len(batch)
    /\ \E failAt \in 0..Len(accepted) :
          /\ failAt > 0 => events < MaxEvents
          /\ events' = IF failAt > 0 THEN events + 1 ELSE events
          /\ LET r == import_persist_library_entries(library, accepted, failAt)
             IN  /\ library' = r.rows
                 /\ result' = r.res
    /\ pc' = "idle"
    /\ batch' = <<>>
    /\ pos' = 0
    /\ accepted' = <<>>
    /\ UNCHANGED <<files, libfiles, trash, catalog, moved>>
    /\ UNCHANGED <<visited, errors, call, ret>>

\* Every row of every group, the first included.
RECURSIVE SkipNoneOfEach(_, _)
SkipNoneOfEach(groups, order) ==
    IF order = <<>> THEN <<>>
    ELSE groups[Head(order)] \o SkipNoneOfEach(groups, Tail(order))

\* The entries prune duplicates relocates: every row but the first of each
\* group.  `order` is the order in which the map yields the groups.
RECURSIVE SkipFirstOfEach(_, _)
SkipFirstOfEach(groups, order) ==
    IF order = <<>> THEN <<>>
    ELSE Tail(groups[Head(order)]) \o SkipFirstOfEach(groups, Tail(order))

GroupOrders(groups) ==
    {o \in [1..Cardinality(DOMAIN groups) -> DOMAIN groups] :
        \A i, j \in DOMAIN o : i # j => o[i] # o[j]}

\* prune duplicates up to the loops: nothing to do, or the entries to move.
PruneDuplicatesBegin ==
    /\ pc = "idle"
    /\ LET duplicates == find_duplicate_digests(catalog) IN
       IF DOMAIN duplicates = {}
       THEN /\ result' = Ok("prune_duplicates", 0)
            /\ UNCHANGED <<pc, batch>>
       ELSE /\ \E o \in GroupOrders(duplicates) :
                  batch' = SkipFirstOfEach(duplicates, o)
            /\ pc' = "prune_duplicates"
            /\ result' = NoResult
    /\ pos' = 0
    /\ moved' = <<>>
    /\ UNCHANGED <<files, libfiles, trash, catalog, library, accepted, events>>
    /\ UNCHANGED <<visited, errors, call, ret>>

\* prune imported up to the loop.
PruneImportedBegin ==
    /\ pc = "idle"
    /\ LET already_imported == find_already_imported(catalog, library) IN
       IF already_imported = <<>>
       THEN /\ result' = Ok("prune_imported", 0)
            /\ UNCHANGED <<pc, batch>>
       ELSE /\ batch' = already_imported
            /\ pc' = "prune_imported"
            /\ result' = NoResult
    /\ pos' = 0
    /\ moved' = <<>>
    /\ UNCHANGED <<files, libfiles, trash, catalog, library, accepted, events>>
    /\ UNCHANGED <<visited, errors, call, ret>>

\* One iteration of the relocation loop: `move_to_trash(entry)?`.
PruneMove ==
    /\ pc \in {"prune_duplicates", "prune_imported"}
    /\ pos < Len(batch)
    /\ \E fault \in {"none", "copy", "remove"} :
          /\ fault # "none" => events < MaxEvents
          /\ events' = IF fault # "none" THEN events + 1 ELSE events
          /\ LET e == batch[pos + 1]
                 fs == Disk(files, libfiles)
                 m == move_to_trash(fs, trash, e.path, fault)
             IN  /\ files' = [p \in Paths |-> m.fs[p]]
                 /\ libfiles' = [l \in LibPaths |-> m.fs[WorkdirPath(l)]]
                 /\ trash' = m.tr
                 /\ IF m.ok
                    THEN /\ moved' = Append(moved, [entry |-> e, bytes |-> fs[e.path]])
                         /\ pos' = pos + 1
                         /\ UNCHANGED <<pc, batch, result>>
                    ELSE /\ result' = Err(pc, m.err)
                         /\ pc' = "idle"
                         /\ batch' = <<>>
                         /\ pos' = 0
                         /\ moved' = <<>>
    /\ UNCHANGED <<catalog, library, accepted>>
    /\ UNCHANGED <<visited, errors, call, ret>>

\* The rows removed without waiting for the relocation loop to finish.
PruneRemoveEarly ==
    /\ pc \in {"prune_duplicates", "prune_imported"}
    /\ catalog' = remove_catalog_entries(catalog, batch)
    /\ result' = Ok(pc, Len(batch))
    /\ pc' = "idle"
    /\ batch' = <<>>
    /\ pos' = 0
    /\ moved' = <<>>
    /\ UNCHANGED <<files, libfiles, trash, library, accepted, events>>
    /\ UNCHANGED <<visited, errors, call, ret>>

\* After the loop: one remove_catalog_entries call for all selected entries.
PruneRemove ==
    /\ pc \in {"prune_duplicates", "prune_imported"}
    /\ pos = Len(batch)
    /\ catalog' = remove_catalog_entries(catalog, batch)
    /\ result' = Ok(pc, Len(batch))
    /\ pc' = "idle"
    /\ batch' = <<>>
    /\ pos' = 0
    /\ moved' = <<>>
    /\ UNCHANGED <<files, libfiles, trash, library, accepted, events>>
    /\ UNCHANGED <<visited, errors, call, ret>>

Next ==
    \/ \E root \in Prefixes : Catalog(root)
    \/ \E p \in Paths, d \in Digests : Tamper(p, d)
    \/ \E prefix \in Prefixes : ImportBegin(prefix)
    \/ ImportEntry
    \/ ImportPersist
    \/ PruneDuplicatesBegin
    \/ PruneImportedBegin
    \/ PruneMove
    \/ PruneRemove

Spec == Init /\ [][Next]_vars

\* ============================================= the store, called directly
\* The rows a test hands to the store: two paths are enough for a conflict
\* with a stored row and for one inside a batch.
StoreCatalogRows == {CatalogEntry(h, p) : h \in Digests, p \in {WalkOrder[1], WalkOrder[2]}}
StoreLibraryRows == {LibraryEntry(h, l) : h \in Digests, l \in {<<"x", 0>>, <<"y", 0>>}}

CatalogBatches == UNION {[1..n -> StoreCatalogRows] : n \in 0..MaxBatch}
LibraryBatches == UNION {[1..n -> StoreLibraryRows] : n \in 0..MaxBatch}

StorePersistCatalog(entries) ==
    /\ pc = "idle"
    /\ LET r == persist_catalog_entries(catalog, entries)
       IN  /\ catalog' = r.rows
           /\ result' = r.res
           /\ errors' = IF r.res.ok THEN <<>>
                        ELSE <<execute_error(first_refused(catalog, entries))>>
    /\ batch' = entries
    /\ UNCHANGED <<files, libfiles, trash, library, pc, pos, accepted, moved, events>>
    /\ UNCHANGED <<visited, call, ret>>

StorePersistLibrary(entries) ==
    /\ pc = "idle"
    /\ LET r == persist_library_entries(library, entries, 0)
       IN  /\ library' = r.rows
           /\ result' = r.res
    /\ batch' = entries
    /\ UNCHANGED <<files, libfiles, trash, catalog, pc, pos, accepted, moved, events>>
    /\ UNCHANGED <<visited, errors, call, ret>>

StoreInit ==
    /\ files = [p \in Paths |-> NoFile]
    /\ libfiles = [l \in LibPaths |-> NoFile]
    /\ trash = [t \in TrashPaths |-> NoFile]
    /\ catalog = <<>>
    /\ library = <<>>
    /\ pc = "idle"
    /\ batch = <<>>
    /\ pos = 0
    /\ accepted = <<>>
    /\ moved = <<>>
    /\ result = NoResult
    /\ events = 0
    /\ visited = <<>>
    /\ errors = <<>>
    /\ call = <<>>
    /\ ret = <<>>

\* The unit tests of database/catalog.rs: any sequence of batches.
CatalogStoreSpec ==
    StoreInit /\ [][\E entries \in CatalogBatches : StorePersistCatalog(entries)]_vars

\* The unit tests of database/library.rs: any sequence of batches.
LibraryStoreSpec ==
    StoreInit /\ [][\E entries \in LibraryBatches : StorePersistLibrary(entries)]_vars


\* ==================================== a scan over files that cannot be read
\* The scan given up at the first entry that cannot be fingerprinted.
fingerprint_all_abort(fs, found, U) ==
    LET bad == {i \in DOMAIN found : found[i] \in U}
        n   == IF bad = {} THEN Len(found)
               ELSE (CHOOSE i \in bad : \A j \in bad : i <= j) - 1
    IN  [i \in 1..n |-> CatalogEntry(fs[found[i]], found[i])]

\* TryFrom<&PathBuf> for CatalogEntry: `sha256_digest(&path_buf)?` and
\* `path_buf.canonicalize()?`; U holds the paths on which one of them fails.
CatalogEntry_try_from(fs, p, U) ==
    IF fs[p] = NoFile \/ p \in U THEN [ok |-> FALSE, entry |-> CatalogEntry(NoFile, p)]
    ELSE [ok |-> TRUE, entry |-> CatalogEntry(fs[p], p)]

\* `.map(try_into) ... .filter_map(|e| e.ok())`: the entries of the walk that
\* could be fingerprinted, in walk order.
fingerprint_all(fs, found, U) ==
    LET kept == SelectSeq(found, LAMBDA p : CatalogEntry_try_from(fs, p, U).ok)
    IN  [i \in 1..Len(kept) |-> CatalogEntry_try_from(fs, kept[i], U).entry]

\* The files WalkDir yields under root, in walk order.
walk(fs, root) ==
    SelectSeq(AllWalkOrder, LAMBDA p : fs[p] # NoFile /\ IsPrefix(root, p))

\* catalog <PATH> over a tree in which the files of U cannot be read.
CatalogScan(root, U) ==
    /\ pc = "idle"
    /\ LET fs == Disk(files, libfiles)
           r  == persist_catalog_entries(catalog, fingerprint_all(fs, walk(fs, root), U))
       IN  /\ catalog' = r.rows
           /\ result' = [r.res EXCEPT !.op = "catalog"]
    /\ UNCHANGED <<files, libfiles, trash, library, pc, batch, pos, accepted,
                   moved, events>>
    /\ UNCHANGED <<visited, errors, call, ret>>

\* The catalog tables a scan can meet: nothing yet, or the rows of an
\* earlier scan of one directory.
ScanInit ==
    /\ files \in [Paths -> Digests \cup {NoFile}]
    /\ libfiles = [l \in LibPaths |-> NoFile]
    /\ trash = [t \in TrashPaths |-> NoFile]
    /\ \E root \in Prefixes \cup {<<"none">>} :
          catalog = WalkEntries(Disk(files, libfiles), root)
    /\ library = <<>>
    /\ pc = "idle"
    /\ batch = <<>>
    /\ pos = 0
    /\ accepted = <<>>
    /\ moved = <<>>
    /\ result = NoResult
    /\ events = 0
    /\ visited = <<>>
    /\ errors = <<>>
    /\ call = <<>>
    /\ ret = <<>>

ScanNext == \E root \in Prefixes, U \in SUBSET Paths : CatalogScan(root, U)

ScanSpec == ScanInit /\ [][ScanNext]_vars

\* ===================================================== the walk's filter
\* A file name is the sequence of its bytes.
MaxNameLen == 3
Bytes == {".", "a", " "}
Names == UNION {[1..n -> Bytes] : n \in 0..MaxNameLen}

\* is_hidden_file_name: at least two bytes, the first a dot, the second not.
is_hidden_file_name(file_name) ==
    Len(file_name) >= 2 /\ file_name[1] = "." /\ file_name[2] # "."

\* filter_entry(|e| !is_hidden_file_name(e.file_name())): an entry for which
\* the predicate is false is not yielded and, when it is a directory, not
\* descended into; so an entry is yielded when no component from the root of
\* the walk down to it is filtered out.
filter_entry(path) == \A i \in DOMAIN path : ~ is_hidden_file_name(path[i])

\* The walk meets the entry `path` (the names from the root of the walk
\* down to the entry).
WalkFilter ==
    /\ ret = <<>>
    /\ ret' = [hidden  |-> [i \in DOMAIN call |-> is_hidden_file_name(call[i])],
               yielded |-> filter_entry(call)]
    /\ UNCHANGED <<files, libfiles, trash, catalog, library, pc, batch, pos,
                   accepted, moved, result, events, visited, errors, call>>

WalkFilterInit ==
    /\ files = [p \in Paths |-> NoFile]
    /\ libfiles = [l \in LibPaths |-> NoFile]
    /\ trash = [t \in TrashPaths |-> NoFile]
    /\ catalog = <<>>
    /\ library = <<>>
    /\ pc = "idle"
    /\ batch = <<>>
    /\ pos = 0
    /\ accepted = <<>>
    /\ moved = <<>>
    /\ result = NoResult
    /\ events = 0
    /\ visited = <<>>
    /\ errors = <<>>
    /\ call \in UNION {[1..n -> Names] : n \in 1..2}
    /\ ret = <<>>

WalkFilterSpec == WalkFilterInit /\ [][WalkFilter]_vars

\* ================================================ the library destination
\* A file name is the sequence of the parts its dots separate: <<"a", "b">>
\* is a.b.  No part is empty, so no name begins or ends with a dot.
Parts == {"a", "b"}
MaxParts == 3
PartNames == UNION {[1..n -> Parts] : n \in 1..MaxParts}

Last(s)  == s[Len(s)]
Front(s) == SubSeq(s, 1, Len(s) - 1)

\* Path::file_stem and Path::extension: the name is split at its last dot;
\* a name without a dot is its own stem and has no extension.
Path_file_stem(name) == IF Len(name) = 1 THEN name ELSE Front(name)
Path_has_extension(name) == Len(name) > 1
Path_extension(name) == Last(name)

\* A path of the library: the date directory and the file name in it.
PathBuf(dir, name) == [dir |-> dir, name |-> name]

\* PathBuf::push of a relative name: one more component.
PathBuf_push(dir, name) == PathBuf(dir, name)

\* PathBuf::set_extension: the path is cut after the file stem of its file
\* name, then a dot and the extension are added.
PathBuf_set_extension(path, extension) ==
    PathBuf(path.dir, Path_file_stem(path.name) \o <<extension>>)

\* PathBuf::set_file_name: the last component is replaced.
PathBuf_set_file_name(path, name) == PathBuf(path.dir, name)

\* build_file_name: the suffix is appended to the bytes of the stem.
build_file_name(stem, suffix) == Front(stem) \o <<Last(stem) \o suffix>>

\* date_based_path: year, month and day through to_string.
date_based_path(date) == <<ToString(date.y), ToString(date.m), ToString(date.d)>>

\* The loop of unused_filename from its i-th name on; exists is the set of
\* paths that exist.  The names `_1`, `_2`, ... never run out, so the loop
\* ends only at a path that does not exist: when every name up to the number
\* of existing paths plus one led to an existing path, the names after them
\* lead to the same paths and the call does not return.
RECURSIVE unused_filename_loop(_, _, _, _, _)
unused_filename_loop(exists, path, file_stem, extension, i) ==
    IF path \notin exists THEN [ok |-> TRUE, returns |-> TRUE, path |-> path]
    ELSE IF i > Cardinality(exists) + 1
         THEN [ok |-> FALSE, returns |-> FALSE, path |-> path]
         ELSE unused_filename_loop(exists,
                  PathBuf_set_extension(
                      PathBuf_set_file_name(path,
                          build_file_name(file_stem, "_" \o ToString(i))),
                      extension),
                  file_stem, extension, i + 1)

\* unused_filename as library_entry.rs has it, on paths with all their bytes.
library_entry_unused_filename(exists, base_path, file_stem, extension) ==
    unused_filename_loop(exists,
        PathBuf_set_extension(PathBuf_push(base_path, file_stem), extension),
        file_stem, extension, 1)

\* find_unused_library_path: the stem and the extension of the source file
\* (an error when the name has no extension), under the date directory.
find_unused_library_path(exists, name, original_date) ==
    IF ~ Path_has_extension(name)
    THEN [ok |-> FALSE, returns |-> TRUE, path |-> PathBuf(<<>>, <<>>)]
    ELSE library_entry_unused_filename(exists, date_based_path(original_date),
                                       Path_file_stem(name), Path_extension(name))

\* The capture dates of the pictures the tests use.
Dates == {[y |-> 2023, m |-> 5, d |-> 18], [y |-> 2023, m |-> 12, d |-> 2]}

\* The files a date directory may hold: files named as a source file is,
\* or as a source file with `_1` or `_2` after its stem.
Suffixed(name, k) ==
    IF k = 0 THEN name
    ELSE Front(Front(name)) \o <<Last(Front(name)) \o "_" \o ToString(k)>> \o <<Last(name)>>
LibraryNames == {Suffixed(n, k) : n \in {m \in PartNames : Len(m) > 1}, k \in 0..2}

\* A date directory holds no file, one file or two files.
DirectoryContents == {{}} \cup {{n, m} : n, m \in LibraryNames}

\* One call of find_unused_library_path.
FindUnusedLibraryPath ==
    /\ ret = <<>>
    /\ ret' = find_unused_library_path(
                  {PathBuf(date_based_path(call.date), n) : n \in call.exists},
                  call.name, call.date)
    /\ UNCHANGED <<files, libfiles, trash, catalog, library, pc, batch, pos,
                   accepted, moved, result, events, visited, errors, call>>

LibraryPathInit ==
    /\ files = [p \in Paths |-> NoFile]
    /\ libfiles = [l \in LibPaths |-> NoFile]
    /\ trash = [t \in TrashPaths |-> NoFile]
    /\ catalog = <<>>
    /\ library = <<>>
    /\ pc = "idle"
    /\ batch = <<>>
    /\ pos = 0
    /\ accepted = <<>>
    /\ moved = <<>>
    /\ result = NoResult
    /\ events = 0
    /\ visited = <<>>
    /\ errors = <<>>
    /\ call \in [name : PartNames, date : Dates, exists : DirectoryContents]
    /\ ret = <<>>

LibraryPathSpec == LibraryPathInit /\ [][FindUnusedLibraryPath]_vars

\* ============================================ the read-only operations
VisitOk      == [ok |-> TRUE,  msg |-> Message("", <<>>)]
VisitErr(m)  == [ok |-> FALSE, msg |-> m]
ERR_JOINED   == "errors.join"
ERR_VISITOR  == "invalid entry"
ERR_CATALOG_CHECK == "Failed catalog check for"
ERR_LIBRARY_CHECK == "Failed library check for"

\* The loop left at the first failing row.
catalog_foreach_entry_abort(rows, f) ==
    LET bad == {i \in DOMAIN rows : ~ f[rows[i]].ok}
        n   == IF bad = {} THEN Len(rows)
               ELSE CHOOSE i \in bad : \A j \in bad : i <= j
    IN  [visited |-> SubSeq(rows, 1, n),
         errors  |-> IF bad = {} THEN <<>> ELSE <<f[rows[n]].msg>>,
         res     |-> IF bad = {} THEN Ok("foreach", Len(rows))
                     ELSE Err("foreach", ERR_JOINED)]

\* The count returned whether or not a row failed.
catalog_foreach_entry_count(rows, f) ==
    LET failed == SelectSeq(rows, LAMBDA r : ~ f[r].ok)
    IN  [visited |-> rows,
         errors  |-> [i \in 1..Len(failed) |-> f[failed[i]].msg],
         res     |-> Ok("foreach", Len(rows) - Len(failed))]

\* catalog::foreach_entry (f maps each row to the visitor's outcome on it):
\* f is applied to every row of the query in turn; a success adds to the
\* count, a failure adds its message; Ok(count) when no message was
\* collected, else one error made of the messages joined.
catalog_foreach_entry(rows, f) ==
    LET failed == SelectSeq(rows, LAMBDA r : ~ f[r].ok)
    IN  [visited |-> rows,
         errors  |-> [i \in 1..Len(failed) |-> f[failed[i]].msg],
         res     |-> IF failed = <<>> THEN Ok("foreach", Len(rows) - Len(failed))
                     ELSE Err("foreach", ERR_JOINED)]

\* library::foreach_entry: the same loop over the library table.
library_foreach_entry(rows, f) ==
    LET failed == SelectSeq(rows, LAMBDA r : ~ f[r].ok)
    IN  [visited |-> rows,
         errors  |-> [i \in 1..Len(failed) |-> f[failed[i]].msg],
         res     |-> IF failed = <<>> THEN Ok("foreach", Len(rows) - Len(failed))
                     ELSE Err("foreach", ERR_JOINED)]

\* A visitor that accepts every row whose file can be opened.
check_entry_readable(fs, e, text) ==
    IF fs[e.path] = NoFile THEN VisitErr(Message(ERR_IO, <<>>))
    ELSE VisitOk

\* The closure of check_catalog_integrity and check_library_integrity:
\* `sha256_digest(&e.path())?` fails with the I/O error when the file cannot
\* be read; a digest other than the stored one fails with the text and the path.
check_entry(fs, e, text) ==
    IF fs[e.path] = NoFile THEN VisitErr(Message(ERR_IO, <<>>))
    ELSE IF e.hash = fs[e.path] THEN VisitOk
    ELSE VisitErr(Message(text, e.path))

\* find_duplicates: one row per digest that has more than one path, in
\* digest order; which row of the group it is, is the database's choice.
find_duplicates(rows) ==
    LET ds == SeqOfSet(DuplicateDigests(rows))
    IN  {s \in [1..Len(ds) -> Range(rows)] : \A k \in 1..Len(ds) : s[k].hash = ds[k]}

\* A call of catalog::foreach_entry with a visitor that fails on the rows
\* whose path is in F.
ForeachCatalog(F) ==
    /\ pc = "idle"
    /\ LET f == [e \in Range(catalog) |->
                    IF e.path \in F THEN VisitErr(Message(ERR_VISITOR, e.path)) ELSE VisitOk]
           r == catalog_foreach_entry(catalog, f)
       IN  /\ visited' = r.visited
           /\ errors' = r.errors
           /\ result' = [r.res EXCEPT !.op = "foreach_catalog"]
    /\ UNCHANGED <<files, libfiles, trash, catalog, library, pc, batch, pos,
                   accepted, moved, events>>
    /\ UNCHANGED <<call, ret>>

\* A call of library::foreach_entry with a visitor that fails on the rows
\* whose path is in F.
ForeachLibrary(F) ==
    /\ pc = "idle"
    /\ LET f == [e \in Range(library) |->
                    IF e.path \in F THEN VisitErr(Message(ERR_VISITOR, e.path)) ELSE VisitOk]
           r == library_foreach_entry(library, f)
       IN  /\ visited' = r.visited
           /\ errors' = r.errors
           /\ result' = [r.res EXCEPT !.op = "foreach_library"]
    /\ UNCHANGED <<files, libfiles, trash, catalog, library, pc, batch, pos,
                   accepted, moved, events>>
    /\ UNCHANGED <<call, ret>>

\* check catalog
CheckCatalog ==
    /\ pc = "idle"
    /\ LET f == [e \in Range(catalog) |->
                    check_entry(Disk(files, libfiles), e, ERR_CATALOG_CHECK)]
           r == catalog_foreach_entry(catalog, f)
       IN  /\ visited' = r.visited
           /\ errors' = r.errors
           /\ result' = [r.res EXCEPT !.op = "check_catalog"]
    /\ UNCHANGED <<files, libfiles, trash, catalog, library, pc, batch, pos,
                   accepted, moved, events>>
    /\ UNCHANGED <<call, ret>>

\* check library
CheckLibrary ==
    /\ pc = "idle"
    /\ LET f == [e \in Range(library) |->
                    check_entry(libfiles, e, ERR_LIBRARY_CHECK)]
           r == library_foreach_entry(library, f)
       IN  /\ visited' = r.visited
           /\ errors' = r.errors
           /\ result' = [r.res EXCEPT !.op = "check_library"]
    /\ UNCHANGED <<files, libfiles, trash, catalog, library, pc, batch, pos,
                   accepted, moved, events>>
    /\ UNCHANGED <<call, ret>>

\* A call of find_duplicates; visited holds the vector it returned.
FindDuplicates ==
    /\ pc = "idle"
    /\ \E res \in find_duplicates(catalog) :
          /\ visited' = res
          /\ result' = Ok("find_duplicates", Len(res))
    /\ errors' = <<>>
    /\ UNCHANGED <<files, libfiles, trash, catalog, library, pc, batch, pos,
                   accepted, moved, events>>
    /\ UNCHANGED <<call, ret>>

\* Catalog tables: rows with distinct paths.  Library tables: rows with
\* distinct digests and distinct paths.
CatalogTables ==
    {t \in UNION {[1..n -> {CatalogEntry(h, p) : h \in Digests, p \in Paths}] :
                     n \in 0..Cardinality(Paths)} :
        \A i, j \in DOMAIN t : i # j => t[i].path # t[j].path}

LibraryTables ==
    {t \in UNION {[1..n -> StoreLibraryRows] : n \in 0..2} :
        \A i, j \in DOMAIN t : i # j => /\ t[i].path # t[j].path
                                         /\ t[i].hash # t[j].hash}

\* Any catalog table over any source tree, or any library table over any
\* content of its files.
CheckInit ==
    /\ trash = [t \in TrashPaths |-> NoFile]
    /\ pc = "idle"
    /\ batch = <<>>
    /\ pos = 0
    /\ accepted = <<>>
    /\ moved = <<>>
    /\ result = NoResult
    /\ events = 0
    /\ visited = <<>>
    /\ errors = <<>>
    /\ call = <<>>
    /\ ret = <<>>
    /\ \/ /\ catalog \in CatalogTables
          /\ files \in [Paths -> Digests \cup {NoFile}]
          /\ library = <<>>
          /\ libfiles = [l \in LibPaths |-> NoFile]
       \/ /\ catalog = <<>>
          /\ files = [p \in Paths |-> NoFile]
          /\ library \in LibraryTables
          /\ libfiles \in {lf \in [LibPaths -> Digests \cup {NoFile}] :
                              \A l \in LibPaths : l[2] # 0 => lf[l] = NoFile}

CheckNext ==
    \/ \E F \in SUBSET Paths : ForeachCatalog(F)
    \/ \E F \in SUBSET {r.path : r \in StoreLibraryRows} : ForeachLibrary(F)
    \/ CheckCatalog
    \/ CheckLibrary
    \/ FindDuplicates

CheckSpec == CheckInit /\ [][CheckNext]_vars

\* ============================= import over a catalog whose files changed
\* Any catalog table over any content of the source tree: since the scan,
\* files may have been removed or rewritten.  The library is empty.
ImportInit ==
    /\ files \in [Paths -> Digests \cup {NoFile}]
    /\ libfiles = [l \in LibPaths |-> NoFile]
    /\ trash = [t \in TrashPaths |-> NoFile]
    /\ catalog \in CatalogTables
    /\ library = <<>>
    /\ pc = "idle"
    /\ batch = <<>>
    /\ pos = 0
    /\ accepted = <<>>
    /\ moved = <<>>
    /\ result = NoResult
    /\ events = 0
    /\ visited = <<>>
    /\ errors = <<>>
    /\ call = <<>>
    /\ ret = <<>>

ImportNext ==
    \/ \E prefix \in Prefixes : ImportBegin(prefix)
    \/ ImportEntry
    \/ ImportPersist

ImportSpec == ImportInit /\ [][ImportNext]_vars

\* =========================================================== the dispatch
\* The names of the sub-applications of src/command, and the names the
\* tests of main.rs use.
INIT    == "init"
CATALOG == "catalog"
IMPORT  == "import"
CHECK   == "check"
PRUNE   == "prune"
SubApplications == {INIT, CATALOG, IMPORT, CHECK, PRUNE, "test"}
CommandNames    == SubApplications \cup {"other_command"}

PANIC_UNSUPPORTED == "Unsupported subcommand"

\* SubCommandHolder: the names that have a handler.  register inserts the
\* sub-application under its name.
SubCommandHolder_new == {}
register(sub_commands, sub_app) == sub_commands \cup {sub_app}

\* app(): the sub-applications the program registers.
app == register(register(register(register(SubCommandHolder_new, INIT), CATALOG),
                         IMPORT), CHECK)

\* SubCommandHolder::handle for the subcommand `name`: the handler stored
\* under the name is called and its result returned; without one, a panic.
\* `outcome` is what the handler returns.
SubCommandHolder_handle(sub_commands, name, outcome) ==
    IF name \in sub_commands
    THEN [name    |-> name,
          invoked |-> [n \in SubApplications |-> IF n = name THEN 1 ELSE 0],
          result  |-> outcome]
    ELSE [name    |-> name,
          invoked |-> [n \in SubApplications |-> 0],
          result  |-> PANIC_UNSUPPORTED]

\* PhotoWorks::register, before the program runs.
Register(sub_app) ==
    /\ ret = <<>>
    /\ call' = register(call, sub_app)
    /\ UNCHANGED <<files, libfiles, trash, catalog, library, pc, batch, pos,
                   accepted, moved, result, events, visited, errors, ret>>

\* PhotoWorks::run with the subcommand `name` on the command line; external
\* subcommands are allowed, so every name reaches the holder.
Run(name, outcome) ==
    /\ ret = <<>>
    /\ ret' = SubCommandHolder_handle(call, name, outcome)
    /\ UNCHANGED <<files, libfiles, trash, catalog, library, pc, batch, pos,
                   accepted, moved, result, events, visited, errors, call>>

\* PhotoWorks::new()
DispatchInit ==
    /\ files = [p \in Paths |-> NoFile]
    /\ libfiles = [l \in LibPaths |-> NoFile]
    /\ trash = [t \in TrashPaths |-> NoFile]
    /\ catalog = <<>>
    /\ library = <<>>
    /\ pc = "idle"
    /\ batch = <<>>
    /\ pos = 0
    /\ accepted = <<>>
    /\ moved = <<>>
    /\ result = NoResult
    /\ events = 0
    /\ visited = <<>>
    /\ errors = <<>>
    /\ call = SubCommandHolder_new
    /\ ret = <<>>

DispatchNext ==
    \/ \E sub_app \in SubApplications : Register(sub_app)
    \/ \E name \in CommandNames, outcome \in {"Ok", "Err"} : Run(name, outcome)

DispatchSpec == DispatchInit /\ [][DispatchNext]_vars

\* ============================================================= the digest
\* A file is the sequence of its bytes.  BufLen is the length of the buffer
\* (1024 in the source).
MaxFileLen == 3
BufLen     == 2
FileBytes  == {0, 1}
FileContents == UNION {[1..n -> FileBytes] : n \in 0..MaxFileLen}

\* Sha256: the state of the hasher is the bytes it has absorbed, and the
\* digest stands for exactly these bytes (no collision in the model).
Sha256_new == <<>>
Sha256_update(hasher, bytes) == hasher \o bytes
Sha256_finalize(hasher) == [sha256 |-> hasher]

\* format!("{:X}", digest): the digest as upper-case hexadecimal.
format_X(digest) == [hex |-> "X", sha256 |-> digest.sha256]

\* The whole buffer handed to the hasher, whatever the read returned.
update_from_buffer_whole(hasher, buffer, count) == Sha256_update(hasher, buffer)

\* hasher.update(&buffer[..count])
update_from_buffer(hasher, buffer, count) ==
    Sha256_update(hasher, SubSeq(buffer, 1, count))

\* reader.read(&mut buffer) at offset offset: up to `want` bytes of the file
\* are written at the start of the buffer, the rest of the buffer is left.
reader_read(bytes, offset, buffer, want) ==
    LET count == IF Len(bytes) - offset < want THEN Len(bytes) - offset ELSE want
    IN  [count  |-> count,
         buffer |-> [i \in 1..BufLen |-> IF i <= count THEN bytes[offset + i]
                                         ELSE buffer[i]]]

\* The loop of sha256_digest from its i-th read on.  reads[i] is the
\* number of bytes the i-th read is willing to return (a read may return
\* less than the buffer holds); failAt = i: the i-th read fails.
RECURSIVE sha256_digest_loop(_, _, _, _, _, _, _)
sha256_digest_loop(bytes, offset, hasher, buffer, reads, failAt, i) ==
    IF failAt = i THEN [ok |-> FALSE, err |-> ERR_IO, digest |-> <<>>]
    ELSE LET r == reader_read(bytes, offset, buffer, reads[i]) IN
         IF r.count = 0
         THEN [ok |-> TRUE, err |-> "", digest |-> format_X(Sha256_finalize(hasher))]
         ELSE sha256_digest_loop(bytes, offset + r.count,
                                 update_from_buffer(hasher, r.buffer, r.count),
                                 r.buffer, reads, failAt, i + 1)

\* sha256_digest: File::open(path)? (opens is FALSE when the file cannot be
\* opened), then the loop over a zeroed buffer.
sha256_digest(opens, bytes, reads, failAt) ==
    IF ~ opens THEN [ok |-> FALSE, err |-> ERR_IO, digest |-> <<>>]
    ELSE sha256_digest_loop(bytes, 0, Sha256_new, [i \in 1..BufLen |-> 0],
                            reads, failAt, 1)

\* One call of sha256_digest.
Sha256Digest ==
    /\ ret = <<>>
    /\ ret' = sha256_digest(call.opens, call.file, call.reads, call.failAt)
    /\ UNCHANGED <<files, libfiles, trash, catalog, library, pc, batch, pos,
                   accepted, moved, result, events, visited, errors, call>>

\* Any file, any way the reads split it, any read failing or none.
DigestInit ==
    /\ files = [p \in Paths |-> NoFile]
    /\ libfiles = [l \in LibPaths |-> NoFile]
    /\ trash = [t \in TrashPaths |-> NoFile]
    /\ catalog = <<>>
    /\ library = <<>>
    /\ pc = "idle"
    /\ batch = <<>>
    /\ pos = 0
    /\ accepted = <<>>
    /\ moved = <<>>
    /\ result = NoResult
    /\ events = 0
    /\ visited = <<>>
    /\ errors = <<>>
    /\ call \in [opens  : BOOLEAN,
                 file   : FileContents,
                 reads  : [1..(MaxFileLen + 1) -> 1..BufLen],
                 failAt : 0..(MaxFileLen + 1)]
    /\ ret = <<>>

DigestSpec == DigestInit /\ [][Sha256Digest]_vars

\* ======================================================== the trash path
\* trash_path on its own, as the tests of command/prune.rs call it.  The
\* root `/` can only be the first component of a path.
MaxDepth == 3
TRASH == ".trash"
EntryPaths ==
    {p \in UNION {[1..n -> {"a", "b", "c.png", "..", "/"}] : n \in 0..MaxDepth} :
        \A i \in DOMAIN p : p[i] = "/" => i = 1}

\* One call: Ok(".trash"/<directory>/<filename>) or Err("Invalid File").
TrashPath ==
    /\ ret = <<>>
    /\ LET t == trash_path(call.path)
       IN  ret' = IF t.ok THEN [ok |-> TRUE, path |-> <<TRASH>> \o t.path, err |-> ""]
                  ELSE [ok |-> FALSE, path |-> <<>>, err |-> ERR_INVALID]
    /\ UNCHANGED <<files, libfiles, trash, catalog, library, pc, batch, pos,
                   accepted, moved, result, events, visited, errors, call>>

TrashPathInit ==
    /\ files = [p \in Paths |-> NoFile]
    /\ libfiles = [l \in LibPaths |-> NoFile]
    /\ trash = [t \in TrashPaths |-> NoFile]
    /\ catalog = <<>>
    /\ library = <<>>
    /\ pc = "idle"
    /\ batch = <<>>
    /\ pos = 0
    /\ accepted = <<>>
    /\ moved = <<>>
    /\ result = NoResult
    /\ events = 0
    /\ visited = <<>>
    /\ errors = <<>>
    /\ call \in [path : EntryPaths]
    /\ ret = <<>>

TrashPathSpec == TrashPathInit /\ [][TrashPath]_vars

\* ===================================================== the move to trash
\* move_to_trash on its own, on a disk where the trash directory is a
\* directory like the others: an entry may lie in it (after `catalog
\* .trash/a`).  A file holds the bytes of a digest, or no bytes at all.
EMPTY == NumDigests + 1
DiskPaths == {<<"p", "a", "x">>, <<TRASH, "a", "x">>, <<"x">>}

\* trash_path, create_dir_all, copy, remove_file, each ending the call on
\* its error.  fault names the step an injected I/O error hits: a copy fails
\* before it opens its destination or after it has created or truncated it.
\* std::fs::copy of a file onto itself truncates the file (the destination
\* is opened with truncate before anything is read) or is refused by the
\* platform: same names which.
move_to_trash_on(disk, p, fault, same) ==
    LET t == trash_path(p) IN
    IF ~ t.ok THEN [ok |-> FALSE, err |-> ERR_INVALID, disk |-> disk]
    ELSE LET dest == <<TRASH>> \o t.path IN
         IF fault = "create_dir_all" \/ fault = "copy_open" \/ disk[p] = NoFile
            \/ (dest = p /\ same = "fails")
         THEN [ok |-> FALSE, err |-> ERR_IO, disk |-> disk]
         ELSE IF fault = "copy_write"
         THEN [ok |-> FALSE, err |-> ERR_IO, disk |-> [disk EXCEPT ![dest] = EMPTY]]
         ELSE LET copied == IF dest = p THEN [disk EXCEPT ![p] = EMPTY]
                            ELSE [disk EXCEPT ![dest] = disk[p]]
              IN  IF fault = "remove"
                  THEN [ok |-> FALSE, err |-> ERR_IO, disk |-> copied]
                  ELSE [ok |-> TRUE, err |-> "",
                        disk |-> [copied EXCEPT ![p] = NoFile]]

\* One call.
MoveToTrash ==
    /\ ret = <<>>
    /\ ret' = move_to_trash_on(call.disk, call.path, call.fault, call.same)
    /\ UNCHANGED <<files, libfiles, trash, catalog, library, pc, batch, pos,
                   accepted, moved, result, events, visited, errors, call>>

MoveInit ==
    /\ files = [p \in Paths |-> NoFile]
    /\ libfiles = [l \in LibPaths |-> NoFile]
    /\ trash = [t \in TrashPaths |-> NoFile]
    /\ catalog = <<>>
    /\ library = <<>>
    /\ pc = "idle"
    /\ batch = <<>>
    /\ pos = 0
    /\ accepted = <<>>
    /\ moved = <<>>
    /\ result = NoResult
    /\ events = 0
    /\ visited = <<>>
    /\ errors = <<>>
    /\ call \in [disk  : [DiskPaths -> {NoFile, EMPTY} \cup Digests],
                 path  : DiskPaths,
                 fault : {"none", "create_dir_all", "copy_open", "copy_write", "remove"},
                 same  : {"truncates", "fails"}]
    /\ ret = <<>>

MoveSpec == MoveInit /\ [][MoveToTrash]_vars

\* ====================================================== the import query
\* select_from_catalog on its own, as the tests of database/catalog.rs call
\* it.  Here a path and a prefix are written character by character.
MaxPrefixLen == 2
PathPrefixes == UNION {[1..n -> {"a", "A", "_", "%"}] : n \in 0..MaxPrefixLen}

\* The catalogued paths: ab, Ab, ba and _a.
LikePaths == {<<"a", "b">>, <<"A", "b">>, <<"b", "a">>, <<"_", "a">>}

LikeCatalogTables ==
    {t \in UNION {[1..n -> {CatalogEntry(h, p) : h \in Digests, p \in LikePaths}] :
                     n \in 0..MaxBatch} :
        \A i, j \in DOMAIN t : i # j => t[i].path # t[j].path}

LikeLibraryTables ==
    {[i \in 1..Len(SeqOfSet(D)) |-> LibraryEntry(SeqOfSet(D)[i], <<"x", i - 1>>)] :
        D \in SUBSET Digests}

\* One call: the query returns one of its possible results.
SelectFromCatalog ==
    /\ ret = <<>>
    /\ \E sel \in select_from_catalog(catalog, library, call.path_prefix) :
          ret' = [rows |-> sel]
    /\ UNCHANGED <<files, libfiles, trash, catalog, library, pc, batch, pos,
                   accepted, moved, result, events, visited, errors, call>>

SelectInit ==
    /\ files = [p \in Paths |-> NoFile]
    /\ libfiles = [l \in LibPaths |-> NoFile]
    /\ trash = [t \in TrashPaths |-> NoFile]
    /\ catalog \in LikeCatalogTables
    /\ library \in LikeLibraryTables
    /\ pc = "idle"
    /\ batch = <<>>
    /\ pos = 0
    /\ accepted = <<>>
    /\ moved = <<>>
    /\ result = NoResult
    /\ events = 0
    /\ visited = <<>>
    /\ errors = <<>>
    /\ call \in [path_prefix : PathPrefixes]
    /\ ret = <<>>

SelectSpec == SelectInit /\ [][SelectFromCatalog]_vars

\* =============================================================== claims
Hashes(rows) == {rows[i].hash : i \in DOMAIN rows}
Added(old, new) == Range(new) \ Range(old)
Removed(old, new) == Range(old) \ Range(new)

\* Batches of one or two library entries, tried against every reachable table.
ProbeBatches == UNION {[1..n -> StoreLibraryRows] : n \in 1..2}

\* C1: no two rows of the library table share a digest, in every state the
\* commands reach (failed import batches included); and inserting library
\* entries one of whose digests is already in the table fails and leaves the
\* table as it was.
C1_LibraryDigestUnique ==
    /\ \A i, j \in DOMAIN library : i # j => library[i].hash # library[j].hash
    /\ \A entries \in ProbeBatches :
          (\E k \in DOMAIN entries : entries[k].hash \in Hashes(library)) =>
              /\ ~ library_insert_all(library, entries, 0).ok
              /\ ~ persist_library_entries(library, entries, 0).res.ok
              /\ persist_library_entries(library, entries, 0).rows = library

\* A failed import batch has just ended and the table holds rows, so some
\* batch carries a digest that is already present.
C1_Witness ==
    /\ result.op = "import" /\ ~ result.ok
    /\ Len(library) >= 1

\* C2: persist_library_entries is all-or-nothing: after a call either the
\* table is the old table followed by every entry of the batch, or the call
\* returned an error and the table is the old table; a batch with two
\* entries of the same digest always ends the second way.
C2_LibraryBatchAtomic ==
    [][ /\ result'.ok  => /\ library' = library \o batch'
                          /\ result'.count = Len(batch')
        /\ ~ result'.ok => library' = library
        /\ (\E i, j \in DOMAIN batch' : i # j /\ batch'[i].hash = batch'[j].hash)
              => /\ ~ result'.ok
                 /\ library' = library ]_vars

\* A batch of two entries with one digest and two paths was refused, rows
\* were committed before it, and no row carries the batch's digest.
C2_Witness ==
    /\ result.op = "persist_library" /\ ~ result.ok
    /\ Len(batch) = 2
    /\ batch[1].hash = batch[2].hash /\ batch[1].path # batch[2].path
    /\ Len(library) >= 1
    /\ batch[1].hash \notin Hashes(library)

\* The path of the k-th entry of a batch is taken, by a stored row or by an
\* earlier entry of the batch.
PathTaken(rows, entries, k) ==
    \/ \E i \in DOMAIN rows : rows[i].path = entries[k].path
    \/ \E j \in 1..(k - 1) : entries[j].path = entries[k].path

\* C3: persist_catalog_entries is all-or-nothing: if some entry of the batch
\* conflicts on its path with a stored row or with an earlier entry of the
\* batch, the call returns an error and the table is the old table;
\* otherwise the table is the old table followed by the whole batch.
C3_CatalogBatchAtomic ==
    [][ IF \E k \in DOMAIN batch' : PathTaken(catalog, batch', k)
        THEN /\ ~ result'.ok
             /\ catalog' = catalog
        ELSE /\ result'.ok
             /\ result'.count = Len(batch')
             /\ catalog' = catalog \o batch' ]_vars

\* The second entry of a batch of two conflicted with a stored row, the
\* first did not, and the first is not in the table.
C3_Witness ==
    /\ result.op = "persist_catalog" /\ ~ result.ok
    /\ Len(batch) = 2
    /\ ~ PathTaken(catalog, batch, 1)
    /\ \E i \in DOMAIN catalog : catalog[i].path = batch[2].path
    /\ batch[1] \notin Range(catalog)

\* The library path import wrote to in this step.
Written(old, new) == {l \in LibPaths : old[l] # new[l]}

\* C4: when import has copied a source file and the digest of the
\* destination file differs from the digest of the catalog row, the entry
\* is not among the entries import goes on to commit.
C4_MismatchedCopyExcluded ==
    [][ (pc = "import" /\ pos < Len(batch)) =>
          \A l \in Written(libfiles, libfiles') :
             libfiles'[l] # batch[pos + 1].hash => accepted' = accepted ]_vars

\* C5: every library row an import commits has, at the commit, a file at its
\* path whose digest is the row's digest.
C5_CommittedRowMatchesFile ==
    [][ \A r \in Added(library, library') : libfiles'[r.path] = r.hash ]_vars

\* C6: when no command is in progress (the last one succeeded or failed),
\* every catalog row has a file at its path and every library row has a file
\* at its path whose digest is the row's digest.
C6_NoRowWithoutItsFile ==
    pc = "idle" =>
        /\ \A i \in DOMAIN catalog : Disk(files, libfiles)[catalog[i].path] # NoFile
        /\ \A i \in DOMAIN library : libfiles[library[i].path] = library[i].hash

C8_QuarantinedBytesInTrash ==
    [][ (events = 0 /\ Removed(catalog, catalog') # {}) =>
          \A i \in DOMAIN moved :
             /\ \E t \in TrashPaths : trash'[t] = moved[i].bytes
             /\ Disk(files', libfiles')[moved[i].entry.path] = NoFile ]_vars

\* C9: when the transaction of an import does not insert every submitted
\* entry, import fails with the mismatch error, the library table is the old
\* table and the copied files stay.
C9_PersistMismatch ==
    [][ (pc = "import" /\ pc' = "idle" /\ Len(library') # Len(library) + Len(accepted)) =>
          /\ ~ result'.ok
          /\ result'.err = ERR_MISMATCH
          /\ library' = library
          /\ libfiles' = libfiles ]_vars

\* C10: a step of import that writes a file leaves the library table alone
\* and belongs to the copy loop; the step that inserts
\* library rows comes after every candidate went through the loop, touches
\* no file, and inserts only rows whose destination was copied before.
C10_CopyBeforeCommit ==
    [][ /\ (pc = "import" /\ libfiles' # libfiles) =>
              /\ library' = library
              /\ pos < Len(batch)
        /\ library' # library =>
              /\ pc = "import" /\ pos = Len(batch)
              /\ libfiles' = libfiles
              /\ \A r \in Added(library, library') :
                    /\ r \in Range(accepted)
                    /\ libfiles[r.path] # NoFile ]_vars

\* An import of two candidates has committed both rows.
C10_Witness ==
    /\ result.op = "import" /\ result.ok /\ result.count = 2
    /\ Len(library) >= 2

\* C11: for every prefix, no entry select_from_catalog returns has a digest
\* that is in the library table, before and after every step; and every
\* library row a step adds has a digest the table did not hold before.
C11_NeverReimported ==
    [][ /\ \A prefix \in Prefixes :
              /\ \A sel \in select_from_catalog(catalog, library, prefix) :
                    \A k \in DOMAIN sel : sel[k].hash \notin Hashes(library)
              /\ \A sel \in select_from_catalog(catalog', library', prefix) :
                    \A k \in DOMAIN sel : sel[k].hash \notin Hashes(library')
        /\ \A r \in Added(library, library') : r.hash \notin Hashes(library) ]_vars

\* An import has selected a candidate while the catalog holds a row whose
\* digest is in the library.
C11_Witness ==
    /\ pc = "import" /\ pos = 0 /\ Len(batch) >= 1
    /\ \E i \in DOMAIN catalog : catalog[i].hash \in Hashes(library)

\* C12: for every prefix and every digest with a catalog row under the
\* prefix and no library row, each result of select_from_catalog holds
\* exactly one entry of that digest, and it is a catalog row under the prefix.
C12_OnePerDigest ==
    \A prefix \in Prefixes :
        LET eligible(d) == {i \in DOMAIN catalog : /\ catalog[i].hash = d
                                                    /\ IsPrefix(prefix, catalog[i].path)}
            results == select_from_catalog(catalog, library, prefix)
        IN  /\ results # {}
            /\ \A sel \in results : \A d \in Digests :
                  (eligible(d) # {} /\ d \notin Hashes(library)) =>
                      /\ Cardinality({k \in DOMAIN sel : sel[k].hash = d}) = 1
                      /\ \A k \in DOMAIN sel : sel[k].hash = d =>
                            \E i \in eligible(d) : catalog[i] = sel[k]

\* An import has selected its candidates while two catalog rows share the
\* digest of the first candidate.
C12_Witness ==
    /\ pc = "import" /\ pos = 0 /\ Len(batch) >= 1
    /\ \E i, j \in DOMAIN catalog :
          i # j /\ catalog[i].hash = batch[1].hash /\ catalog[j].hash = batch[1].hash

\* The rows of a table with a given digest, in table order.
RowsOf(rows, d) == SelectSeq(rows, LAMBDA r : r.hash = d)

C15_PruneImportedFrame ==
    [][ pc = "prune_imported" =>
          /\ library' = library
          /\ \A i \in DOMAIN library :
                libfiles'[library[i].path] = libfiles[library[i].path]
          /\ (pc' = "idle" /\ result'.ok) =>
                /\ catalog' = SelectSeq(catalog, LAMBDA r : r.hash \notin Hashes(library))
                /\ \A r \in Removed(catalog, catalog') :
                      /\ Disk(files', libfiles')[r.path] = NoFile
                      /\ trash'[trash_path(r.path).path] # NoFile ]_vars

\* C16: when the relocation of one entry fails, the prune still relocates
\* every other selected entry and removes its row, and the failing entry's
\* file and row are as they were.
C16_FailureAbortsOnlyItsEntry ==
    [][ (pc \in {"prune_duplicates", "prune_imported"} /\ pc' = "idle" /\ ~ result'.ok) =>
          /\ Disk(files', libfiles')[batch[pos + 1].path]
                = Disk(files, libfiles)[batch[pos + 1].path]
          /\ batch[pos + 1] \in Range(catalog')
          /\ \A i \in DOMAIN batch : i # pos + 1 =>
                /\ Disk(files', libfiles')[batch[i].path] = NoFile
                /\ batch[i] \notin Range(catalog') ]_vars

\* The tree under root is not empty and every file of it is catalogued with
\* its present digest: it was scanned before and not modified since.
AlreadyScanned(root) ==
    LET entries == WalkEntries(Disk(files, libfiles), root)
    IN  entries # <<>> /\ Range(entries) \subseteq Range(catalog)

\* C20: a catalog of a tree that was scanned before and not modified since
\* fails with the conflict on a path, and the catalog table is as it was.
C20_RescanConflicts ==
    [][ \A root \in Prefixes :
          (AlreadyScanned(root) /\ Catalog(root)) =>
              /\ ~ result'.ok
              /\ result'.err = ERR_CONFLICT
              /\ catalog' = catalog ]_vars

\* A catalog has just failed on a tree whose files are all catalogued.
C20_Witness ==
    /\ result.op = "catalog" /\ ~ result.ok
    /\ pc = "idle"
    /\ \E root \in Prefixes : AlreadyScanned(root)

\* The paths of the rows of a table with a given digest.
PathsOf(rows, d) == {rows[i].path : i \in {j \in DOMAIN rows : rows[j].hash = d}}

\* C13: the result of find_duplicates holds, for every digest with more than
\* one catalog path, all the paths of that digest, and nothing for a digest
\* with a single path.
C13_DuplicatesAllPaths ==
    [][ FindDuplicates =>
          \A d \in Digests :
              PathsOf(visited', d) = IF Cardinality(PathsOf(catalog, d)) > 1
                                     THEN PathsOf(catalog, d)
                                     ELSE {} ]_vars

\* The rows of a table whose path is in F, in table order.
Failing(rows, F) == SelectSeq(rows, LAMBDA r : r.path \in F)

\* What a foreach_entry call over rows, with a visitor failing on the paths
\* of F, must have done: every row visited once, in order, and one message
\* per failing row, in order, inside one error.
VisitedAll(rows, F) ==
    /\ visited' = rows
    /\ Len(errors') = Len(Failing(rows, F))
    /\ \A i \in DOMAIN errors' :
          errors'[i] = Message(ERR_VISITOR, Failing(rows, F)[i].path)
    /\ Failing(rows, F) # <<>> => (~ result'.ok /\ result'.err = ERR_JOINED)

\* C17: foreach_entry, of the catalog and of the library, applies the
\* visitor once to every row, also after rows that failed, and when a row
\* failed it returns one error holding the message of every failing row.
C17_ForeachVisitsAll ==
    [][ /\ \A F \in SUBSET Paths : ForeachCatalog(F) => VisitedAll(catalog, F)
        /\ \A F \in SUBSET {r.path : r \in StoreLibraryRows} :
              ForeachLibrary(F) => VisitedAll(library, F) ]_vars

\* A pass over three catalog rows in which the first row and a later row
\* failed has ended.
C17_Witness ==
    /\ result.op = "foreach_catalog" /\ ~ result.ok
    /\ Len(visited) = 3 /\ Len(errors) >= 2
    /\ errors[1].path = visited[1].path

\* C18 as stated: for every visitor, foreach_entry returns the count of the
\* rows on which the visitor succeeded.
C18_CountForEveryVisitor ==
    [][ result'.op \in {"foreach_catalog", "foreach_library"} =>
          /\ result'.ok
          /\ result'.count = Len(visited') - Len(errors') ]_vars

\* What foreach_entry returns: the number of rows, visited in stored order,
\* when the visitor succeeded on all of them; an error and no count when it
\* failed on a row.
CountOrError(rows, F) ==
    IF Failing(rows, F) = <<>>
    THEN /\ result'.ok
         /\ result'.count = Len(rows)
         /\ visited' = rows
    ELSE /\ ~ result'.ok
         /\ result'.count = 0

\* C18, amended: foreach_entry returns the count of rows only when the
\* visitor succeeded on every row, and the count is then the number of rows
\* of the table, visited in stored order; otherwise it returns an error.
C18_CountOnSuccess ==
    [][ /\ \A F \in SUBSET Paths : ForeachCatalog(F) => CountOrError(catalog, F)
        /\ \A F \in SUBSET {r.path : r \in StoreLibraryRows} :
              ForeachLibrary(F) => CountOrError(library, F) ]_vars

\* A pass over a library table of two rows has returned the count 2.
C18_Witness ==
    /\ result.op = "foreach_library" /\ result.ok /\ result.count = 2
    /\ visited = library

\* What a check over rows, with the files fs, must have done.
Checked(rows, fs, text) ==
    /\ visited' = rows
    /\ ~ result'.ok <=> \E i \in DOMAIN rows : fs[rows[i].path] # rows[i].hash
    /\ \A i \in DOMAIN rows :
          (fs[rows[i].path] # NoFile /\ fs[rows[i].path] # rows[i].hash) =>
              \E k \in DOMAIN errors' : errors'[k] = Message(text, rows[i].path)
    /\ result'.ok => result'.count = Len(rows)

\* C19: check catalog and check library visit every row; they fail exactly
\* when some row's file is missing or has another digest than the stored
\* one; every row whose file has another digest has an error naming its
\* path; a success reports the number of rows.
C19_CheckReportsEveryMismatch ==
    [][ /\ CheckCatalog => Checked(catalog, Disk(files, libfiles), ERR_CATALOG_CHECK)
        /\ CheckLibrary => Checked(library, libfiles, ERR_LIBRARY_CHECK) ]_vars

\* A check of the catalog has failed with two errors, the second of them
\* for a file whose digest is not the stored one.
C19_Witness ==
    /\ result.op = "check_catalog" /\ ~ result.ok
    /\ Len(errors) >= 2
    /\ errors[2].text = ERR_CATALOG_CHECK

\* The files under root that can be fingerprinted, in walk order.
Fingerprintable(root, U) ==
    SelectSeq(AllWalkOrder, LAMBDA p : /\ Disk(files, libfiles)[p] # NoFile
                                       /\ IsPrefix(root, p)
                                       /\ p \notin U)

\* C21: a scan under root in which the files of U cannot be hashed or
\* canonicalized does not stop at them: it submits one entry for every other
\* file under root, in one transaction.  When it succeeds the table is the
\* old table followed by these entries and the count is their number; it
\* fails only when one of these entries has a path the table already holds,
\* and then the table is the old table.
C21_UnreadableFilesSkipped ==
    [][ \A root \in Prefixes, U \in SUBSET Paths :
          CatalogScan(root, U) =>
            LET ps == Fingerprintable(root, U)
                taken == \E i \in DOMAIN ps, j \in DOMAIN catalog :
                            catalog[j].path = ps[i]
            IN  /\ result'.ok <=> ~ taken
                /\ result'.ok =>
                      /\ Len(catalog') = Len(catalog) + Len(ps)
                      /\ \A i \in DOMAIN ps :
                            catalog'[Len(catalog) + i]
                               = CatalogEntry(Disk(files, libfiles)[ps[i]], ps[i])
                      /\ result'.count = Len(catalog') - Len(catalog)
                /\ ~ result'.ok => catalog' = catalog ]_vars

\* A scan has inserted two rows while the scanned tree holds three files:
\* the first file of the walk was skipped and the files after it went in.
C21_Witness ==
    /\ result.op = "catalog" /\ result.ok /\ result.count = 2
    /\ Len(catalog) = 2
    /\ \A p \in Paths : files[p] # NoFile
    /\ catalog[1].path = WalkOrder[2] /\ catalog[2].path = WalkOrder[3]

\* A name that begins with a dot and is neither "." nor "..".
DotName(name) ==
    /\ Len(name) >= 1 /\ name[1] = "."
    /\ name # <<".">> /\ name # <<".", ".">>

\* C22: the walk skips exactly the names that begin with a dot, the names
\* "." and ".." (and the empty name) excepted, and yields an entry exactly
\* when no name on the way down to it is skipped.
C22_HiddenNamesSkipped ==
    ret # <<>> =>
        /\ \A i \in DOMAIN call : ret.hidden[i] <=> DotName(call[i])
        /\ ret.yielded <=> \A i \in DOMAIN call : ~ DotName(call[i])

\* The date directories of the tested dates, as the tests spell them.
ExpectedDir(date) ==
    IF date.m = 5 THEN <<"2023", "5", "18">> ELSE <<"2023", "12", "2">>

\* C23: for a file name with a stem and an extension and a date directory
\* that does not hold a file of that name, the destination is
\* <y>/<m>/<d>/<the file name>, the date written without padding.
C23_DestinationKeepsName ==
    (ret # <<>> /\ Len(call.name) > 1 /\ call.name \notin call.exists) =>
        /\ ret.ok
        /\ ret.path = PathBuf(ExpectedDir(call.date), call.name)

\* The least k >= 1 for which <stem>_k.<extension> is not in the directory.
LeastFree(name, exists) ==
    CHOOSE k \in 1..(Cardinality(exists) + 1) :
        /\ Suffixed(name, k) \notin exists
        /\ \A j \in 1..(k - 1) : Suffixed(name, j) \in exists

\* C24: when the date directory holds a file of the source file's name,
\* the destination is <stem>_k.<extension> in that directory for the least
\* k >= 1 for which no such file exists; and a returned path is never the
\* path of an existing file.
C24_LeastFreeSuffix ==
    ret # <<>> =>
        /\ (ret.ok /\ ret.returns) => ret.path.name \notin call.exists
        /\ (Len(call.name) > 1 /\ call.name \in call.exists) =>
              /\ ret.ok
              /\ ret.path = PathBuf(ExpectedDir(call.date),
                                    Suffixed(call.name, LeastFree(call.name, call.exists)))

\* C23 and C24 on the names with a single dot.
C23_OneDot ==
    Len(call.name) = 2 => C23_DestinationKeepsName
C24_OneDot ==
    Len(call.name) = 2 => C24_LeastFreeSuffix

\* C25: a candidate that fails (its file cannot be read) is left out and
\* the import goes on with the next candidate; every candidate that does
\* not fail is copied and joins the entries to commit; and the commit, unless
\* the storage layer fails, inserts all of them and reports their number.
C25_FailureExcludesOnlyItsEntry ==
    [][ /\ (pc = "import" /\ pos < Len(batch)) =>
              LET e  == batch[pos + 1]
                  fs == Disk(files, libfiles)
              IN  /\ pc' = "import" /\ batch' = batch /\ pos' = pos + 1
                  /\ library' = library
                  /\ IF fs[e.path] = NoFile
                     THEN accepted' = accepted /\ libfiles' = libfiles
                     ELSE /\ Len(accepted') = Len(accepted) + 1
                          /\ SubSeq(accepted', 1, Len(accepted)) = accepted
                          /\ Last(accepted').hash = e.hash
                          /\ libfiles[Last(accepted').path] = NoFile
                          /\ libfiles'[Last(accepted').path] = fs[e.path]
        /\ (pc = "import" /\ pc' = "idle" /\ events' = events) =>
              /\ library' = library \o accepted
              /\ result'.ok
              /\ result'.count = Len(accepted) ]_vars

\* Both candidates of an import went through the loop: the first failed,
\* the second was copied and is the one entry to commit.
C25_Witness ==
    /\ pc = "import" /\ pos = 2 /\ Len(batch) = 2
    /\ files[batch[1].path] = NoFile
    /\ Len(accepted) = 1 /\ accepted[1].hash = batch[2].hash
    /\ libfiles[accepted[1].path] = files[batch[2].path]

\* C26: no step deletes or changes a library row: the table after a step
\* is the table before it, followed by the rows the step added; and only
\* the commit of an import adds rows.
C26_LibraryRowsPermanent ==
    [][ /\ Len(library') >= Len(library)
        /\ SubSeq(library', 1, Len(library)) = library
        /\ library' # library => (pc = "import" /\ pc' = "idle") ]_vars

\* While the library table holds two rows, a prune imported has removed
\* catalog rows.
C26_Witness ==
    /\ result.op = "prune_imported" /\ result.ok /\ result.count >= 1
    /\ Len(library) >= 2
    /\ library[1].path # library[2].path

\* The subcommands of the command line surface.
CliSurface == {INIT, CATALOG, IMPORT, CHECK, PRUNE}

\* C27: in the application as app() builds it, every subcommand of the
\* command line surface has a handler, and running a subcommand that has
\* one calls that handler once, calls no other, and returns its result; a
\* name without a handler ends in the `Unsupported subcommand` panic.
C27_DispatchReachesHandler ==
    [][ \A name \in CommandNames, outcome \in {"Ok", "Err"} :
          (call = app /\ Run(name, outcome)) =>
             /\ name \in CliSurface =>
                   /\ ret'.result = outcome
                   /\ \A n \in SubApplications :
                         ret'.invoked[n] = IF n = name THEN 1 ELSE 0
             /\ name \notin call => ret'.result = PANIC_UNSUPPORTED ]_vars

\* C28: when persist_catalog_entries fails on a path that is taken, the
\* error it returns names the path of the entry of the batch that was
\* refused.
C28_ConflictNamesEntry ==
    [][ (result'.op = "persist_catalog" /\ ~ result'.ok) =>
          /\ Len(errors') = 1
          /\ errors'[1].path = first_refused(catalog, batch').path ]_vars

\* The number of reads a call makes on a file, the read at the end of the
\* file included.
RECURSIVE ReadsMade(_, _, _, _)
ReadsMade(len, offset, reads, i) ==
    IF offset >= len THEN i
    ELSE ReadsMade(len, offset + (IF len - offset < reads[i] THEN len - offset ELSE reads[i]),
                   reads, i + 1)

\* C29: whatever the sizes of the reads, a call that meets no failure
\* returns the digest of the whole byte sequence of the file hashed at once,
\* so that files with the same bytes have the same digest; a file that
\* cannot be opened, or a read that fails, gives an I/O error and no digest.
C29_DigestOfWholeBytes ==
    ret # <<>> =>
        LET failed == \/ ~ call.opens
                      \/ /\ call.failAt >= 1
                         /\ call.failAt <= ReadsMade(Len(call.file), 0, call.reads, 1)
        IN  IF failed
            THEN ~ ret.ok /\ ret.err = ERR_IO /\ ret.digest = <<>>
            ELSE /\ ret.ok
                 /\ ret.digest
                      = format_X(Sha256_finalize(Sha256_update(Sha256_new, call.file)))

\* A file of three bytes was hashed through a read of one byte and a read
\* of two bytes.
C29_Witness ==
    /\ ret # <<>> /\ ret.ok
    /\ call.opens /\ Len(call.file) = 3
    /\ call.reads[1] = 1 /\ call.reads[2] = 2
    /\ call.failAt = 0

\* Some file holding the bytes d is at the path of a catalog row, at the
\* path of a library row, or under trash.
Held(d, fs, lf, tr, cat, lib) ==
    \/ \E i \in DOMAIN cat : Disk(fs, lf)[cat[i].path] = d
    \/ \E i \in DOMAIN lib : lf[lib[i].path] = d
    \/ \E t \in TrashPaths : tr[t] = d

\* C30: in runs without external modification and without failures, every
\* digest a step catalogues is held after the step, and a digest that is
\* held before a step is held after it: the bytes of a file once catalogued
\* never disappear.
C30_NoDataDropped ==
    [][ events' = 0 =>
          /\ \A r \in Added(catalog, catalog') :
                Held(r.hash, files', libfiles', trash', catalog', library')
          /\ \A d \in Digests :
                Held(d, files, libfiles, trash, catalog, library)
                   => Held(d, files', libfiles', trash', catalog', library') ]_vars

\* The entries of one batch, and the rows of the library, have paths of
\* their own.
DistinctPaths(rows) ==
    \A i, j \in DOMAIN rows : rows[i].path = rows[j].path => i = j

\* No step writes a library path that holds a file.
NeverOverwrites ==
    \A l \in Written(libfiles, libfiles') :
        libfiles'[l] # NoFile => libfiles[l] = NoFile

\* C31: import never copies onto a path that holds a file, the entries one
\* import accepts have different destination paths, and no two library rows
\* share a path.
C31_DestinationsCollisionFree ==
    [][ /\ NeverOverwrites
        /\ DistinctPaths(accepted')
        /\ DistinctPaths(library') ]_vars

\* The first two parts of C31 on their own.
C31_CopiesCollisionFree ==
    [][ NeverOverwrites /\ DistinctPaths(accepted') ]_vars


\* C32: for every content of the date directory and every stem and extension,
\* unused_filename returns: with a path that does not exist, or with the
\* error that no unused name was found.
C32_ProbingTerminates ==
    (ret # <<>> /\ Path_has_extension(call.name)) =>
        /\ ret.returns
        /\ ret.ok => ret.path.name \notin call.exists

\* C32 on the names with a single dot.
C32_OneDot ==
    Len(call.name) = 2 => C32_ProbingTerminates


\* The rows of the catalog whose path starts with the prefix, character for
\* character, and whose digest has no library row.
StartsWith(path_prefix, path) == IsPrefix(path_prefix, path)
Candidates(rows, lib, path_prefix) ==
    {r \in Range(rows) : /\ StartsWith(path_prefix, r.path)
                         /\ r.hash \notin Hashes(lib)}

\* C33: every row select_from_catalog returns is a catalog row whose path
\* starts with the prefix, compared character for character, and every
\* digest with such a row and no library row has a row in the result.
C33_LiteralPrefix ==
    ret # <<>> =>
        /\ \A k \in DOMAIN ret.rows :
              /\ ret.rows[k] \in Range(catalog)
              /\ StartsWith(call.path_prefix, ret.rows[k].path)
        /\ \A r \in Candidates(catalog, library, call.path_prefix) :
              r.hash \in Hashes(ret.rows)

\* The second part of C33 on its own.
C33_EveryDigestRepresented ==
    ret # <<>> =>
        \A r \in Candidates(catalog, library, call.path_prefix) :
            r.hash \in Hashes(ret.rows)


\* The last component of a path and the one before it, when they are names.
HasFileName(p)   == Len(p) >= 1 /\ p[Len(p)] \notin {"..", "/"}
HasParentName(p) == Len(p) >= 2 /\ p[Len(p) - 1] \notin {"..", "/"}

\* C35: trash_path maps an entry to <trash root>/<name of the immediate
\* parent directory>/<file name>, whatever the components above them, and
\* fails with "Invalid File" when the path has no file name or no parent
\* directory name.
C35_TrashPathShape ==
    ret # <<>> =>
        LET p == call.path
        IN  IF HasFileName(p) /\ HasParentName(p)
            THEN /\ ret.ok
                 /\ ret.path = <<TRASH, p[Len(p) - 1], p[Len(p)]>>
            ELSE /\ ~ ret.ok
                 /\ ret.err = "Invalid File"

\* a/b/c.png was mapped to .trash/b/c.png.
C35_Witness ==
    /\ ret # <<>>
    /\ call.path = <<"a", "b", "c.png">>
    /\ ret.ok
    /\ ret.path = <<".trash", "b", "c.png">>


\* Where move_to_trash copies the entry at p.
TrashDestination(p) == <<TRASH>> \o trash_path(p).path

\* For an entry whose file exists: the file is deleted only when its bytes
\* are at the trash path; a failure to create the trash directory or to
\* copy is returned as an error and leaves the file in existence; after a
\* success the file is at the trash path and no longer at its own path.
MoveOrdering ==
    (ret # <<>> /\ call.disk[call.path] # NoFile) =>
        LET p == call.path
        IN  /\ ret.disk[p] = NoFile =>
                  /\ trash_path(p).ok
                  /\ ret.disk[TrashDestination(p)] = call.disk[p]
            /\ call.fault \in {"create_dir_all", "copy_open", "copy_write"} =>
                  /\ ~ ret.ok
                  /\ ret.disk[p] # NoFile
            /\ ret.ok =>
                  /\ ret.disk[TrashDestination(p)] = call.disk[p]
                  /\ ret.disk[p] = NoFile

\* C34: move_to_trash deletes the original file only after the copy to the
\* trash path succeeded: if creating the trash directory or copying fails,
\* the original file still exists and an error is returned; on success the
\* file exists at the trash path and no longer at the original path.
C34_DeleteAfterCopy ==
    MoveOrdering

\* C34 for the entries that do not lie in the trash directory.
C34_OutsideTrash ==
    (call.path[1] # TRASH) => MoveOrdering


\* C36: whatever catalog and prune operations ran, failed catalog batches
\* among them, no two rows of the catalog table share a path.
C36_CatalogPathsUnique ==
    DistinctPaths(catalog)

\* A catalog batch has just failed, and two rows of the table share a digest.
C36_Witness ==
    /\ pc = "idle"
    /\ result.op = "catalog" /\ ~ result.ok
    /\ \E i, j \in DOMAIN catalog :
          i # j /\ catalog[i].hash = catalog[j].hash


\* C37: no step of an import (the selection, a candidate copied or failed,
\* the commit or its failure) changes the catalog table or the content of
\* the file at the path of a catalog row.
C37_ImportLeavesCatalogSide ==
    [][ (pc = "import" \/ pc' = "import") =>
          /\ catalog' = catalog
          /\ \A i \in DOMAIN catalog :
                Disk(files', libfiles')[catalog[i].path]
                    = Disk(files, libfiles)[catalog[i].path] ]_vars

\* An import has copied a catalogued file and its commit has failed: the
\* row and the source file are there, beside the copy.
C37_Witness ==
    /\ pc = "idle"
    /\ result.op = "import" /\ ~ result.ok
    /\ \E i \in DOMAIN catalog :
          /\ files[catalog[i].path] # NoFile
          /\ \E l \in LibPaths : libfiles[l] = files[catalog[i].path]


\* C38: when an import with prefix p has committed every candidate it
\* selected, the selection for p is empty afterwards; and an import whose
\* selection is empty copies no file, commits zero rows and leaves the
\* library table as it is.
C38_RerunIsNoOp ==
    [][ /\ (pc = "import" /\ pc' = "idle" /\ result'.ok /\ Len(accepted) = Len(batch)) =>
              \A p \in Prefixes :
                  batch \in select_from_catalog(catalog, library, p) =>
                      select_from_catalog(catalog', library', p) = {<<>>}
        /\ (pc = "import" /\ batch = <<>>) =>
              /\ pc' = "idle"
              /\ result' = Ok("import", 0)
              /\ library' = library
              /\ libfiles' = libfiles ]_vars

\* No import has failed in any way, every catalogued digest is in the
\* library, and one more import has begun and selected nothing.
C38_Witness ==
    /\ pc = "import" /\ batch = <<>>
    /\ events = 0
    /\ catalog # <<>>
    /\ \A i \in DOMAIN catalog : files[catalog[i].path] # NoFile
    /\ Hashes(library) = Hashes(catalog)
    /\ Len(library) > 1

====
